---- MODULE Spec2Model ----
(***************************************************************************)
(* Philomelus: the fetch orchestrator (dataservice.py), the query          *)
(* suppliers (querysupplier.py) and the captcha token pool                 *)
(* (captchaservice.py) as one state machine.                               *)
(*                                                                         *)
(* Threads: the controller (start, wait, stop), the executor's workers     *)
(* running _fetch tasks, and the captcha pool's producer threads.          *)
(***************************************************************************)
EXTENDS Integers, Sequences, FiniteSets, TLC

\* ------------------------------------------------------------------ bounds
NumQuerySets == 2
NumKeys == 2
WorkerCount == 2
CaptchaWorkerCount == 1
MaxTokens == 3
MaxResubmits == 1
MaxsizeArgMax == 1
MaxStartCalls == 2
NumConsumers == 2
MaxGets == 2
MaxRecords == 2
MaxViewMuts == 2
MaxGlyphWidth == 2
MaxGlyphHeight == 2
ImgHeight == 3
MaxSegments == 7
TallHeight == 13
MaxSamples == 3
NumFiles == 2
NumSids == 2
MaxLines == 2

\* Queue(maxsize): AbstractCaptchaService.__init__'s default. SouthCaptchaService
\* and SouthEnrollmentCaptchaService call super().__init__(worker_count) without
\* their own maxsize, so the queue always has this size.
DefaultMaxsize == 40

\* southocr.py
STAGE_SEARCHING_FOR_CHAR == 0
STAGE_PROCESSING_CHAR == 1
\* solve: `1 if x >= 160 else 0`
Threshold == 160
\* append_to_char_boxes_LR: "maximum char width == 8"
MaxCharWidth == 8
\* solve: `if len(char_boxes_LR) != 4`, `if len(char_boxes_UL) != 4`
CharCount == 4

QuerySets == 1..NumQuerySets
CaptchaWorkers == 1..CaptchaWorkerCount
Consumers == 1..NumConsumers
PoolKinds == {"south", "none"}

\* The two remote variants and the two kinds of iterable a supplier hands out:
\* a tuple (LocalQuerySupplier) or a generator (DefaultBruteForceQuerySupplier).
Variants == {"score", "enrollment"}
Suppliers == {"tuple", "generator"}

\* What one remote call can produce: the request or its JSON decoding raises
\* ("transport"), the body lacks what the code reads from it ("malformed"),
\* or a body with an integer status code.
StatusCodes == {1, 0, -1, -2, -3, -4}
Responses ==
    {[kind |-> "transport", code |-> 0], [kind |-> "malformed", code |-> 0]}
        \cup {[kind |-> "status", code |-> c] : c \in StatusCodes}

VARIABLES
    variant,        \* which data service: SouthDataService / SouthEnrollmentDataService
    supplier,       \* the kind of QuerySet the query supplier yields
    dsRunning,      \* AbstractDataService._running
    execShutdown,   \* ThreadPoolExecutor._shutdown
    tasks,          \* every work item ever submitted, by submission order
    workQueue,      \* ThreadPoolExecutor._work_queue (task ids)
    futures,        \* AbstractDataService._futures (task ids)
    results,        \* AbstractDataService._results
    gen,            \* per QuerySet: keys already drawn from its generator
    pool,           \* AbstractCaptchaService._captcha_result_pool
    poolRunning,    \* AbstractCaptchaService._running
    cw,             \* the captcha worker threads
    nextTok,        \* identity of the next token a worker will solve
    ctl,            \* the controller thread's position in start(), wait(), stop()
    nextQS,         \* next QuerySet start() will submit
    waitSnap,       \* the futures concurrent.futures.wait is blocked on
    stopWait,       \* stop()'s wait argument
    poolKind,       \* which captcha service: SouthCaptchaService / NoCaptchaService
    maxsizeArg,     \* the maxsize argument SouthCaptchaService was constructed with
    startErr,       \* start() raised RuntimeError out of Thread.start()
    client,         \* a thread calling the pool's start() and shutdown() itself
    cons,           \* threads calling get_captcha_result() themselves
    hist,           \* history: tokens handed out by get(), tokens the remote rejected
    view,           \* what a caller of get_result_list() holds
    img,            \* southocr.solve: the image it is given
    solveOut,       \* southocr.solve: what it returned
    cand,           \* calculate_similarity: the candidate glyph
    samp,           \* calculate_similarity: the sample glyph
    simOut,         \* calculate_similarity: what it returned
    samples,        \* southocr.samples, in the order they were loaded
    recOut,         \* what visual_recognise_char_img(cand) returned
    tokLimit,       \* how many solvable challenges the remote site serves
    files,          \* LocalDataService._files, each with its rows
    sidSet,         \* LocalDataService._sid_set
    lw              \* per file: where its _parse_file call is

vars == <<variant, supplier, dsRunning, execShutdown, tasks, workQueue, futures,
          results, gen, pool, poolRunning, cw, nextTok, ctl, nextQS, waitSnap,
          stopWait, poolKind, maxsizeArg, startErr, client, cons, hist, view,
          img, solveOut, cand, samp, simOut, samples, recOut, tokLimit, files,
          sidSet, lw>>

orchVars == <<dsRunning, execShutdown, tasks, workQueue, futures, results, gen>>
poolVars == <<pool, poolRunning, cw, nextTok, startErr>>
ctlVars == <<ctl, nextQS, waitSnap, stopWait>>
dsCfg == <<variant, supplier>>
poolCfg == <<poolKind, maxsizeArg, tokLimit>>
apiVars == <<client, cons>>
\* What a run of the data service never changes.
sinkVars == <<view>>
ocrVars == <<img, solveOut, cand, samp, simOut, samples, recOut>>
localVars == <<files, sidSet, lw>>
restVars == <<sinkVars, ocrVars, localVars>>
cfgVars == <<dsCfg, poolCfg, apiVars, restVars>>

TaskIds == 1..Len(tasks)

NoLast == [key |-> 0, token |-> 0, outcome |-> "none"]

\* A work item: executor.submit(self._fetch, query_set).
NewTask(qs, parent) ==
    [qs |-> qs, parent |-> parent, pc |-> "queued", key |-> 0, token |-> 0,
     last |-> NoLast, result |-> "none"]

SeqToSet(s) == {s[i] : i \in 1..Len(s)}

\* The worker threads a captcha service is constructed with: worker_count of
\* them, none for NoCaptchaService (super().__init__(0)). Of a worker: tok
\* is its local `code` (0 for None, else the number of the fetch whose image
\* was solved), ctx its local `t` or `cookies` (0 while unassigned, -1 for
\* the session context of a fetch whose image was not solved, else the
\* number of the fetch it came with).
NewThreads(kind) ==
    [w \in (IF kind = "none" THEN {} ELSE CaptchaWorkers) |->
        [pc |-> "new", tok |-> 0, late |-> FALSE, ctx |-> 0]]

NoHist == [handed |-> <<>>, rejected |-> {}]
NoView == [asked |-> "none", alias |-> FALSE, list |-> <<>>, muts |-> 0]
NoGlyph == [w |-> 0, h |-> 0, ink |-> {}]

\* Nobody holds a result list, nothing is being recognised.
NoRec == [done |-> FALSE, name |-> ""]
LocalIdle == files = <<>> /\ sidSet = {} /\ lw = <<>>
RestIdle ==
    /\ view = NoView
    /\ img = <<>>
    /\ solveOut = [done |-> FALSE, none |-> FALSE, str |-> <<>>]
    /\ cand = NoGlyph
    /\ samp = NoGlyph
    /\ simOut = [done |-> FALSE, val |-> 0]
    /\ samples = <<>>
    /\ recOut = NoRec
    /\ LocalIdle
NoClient == [starts |-> 0, shutdowns |-> 0]
NoCons == [c \in Consumers |-> [pc |-> "idle", n |-> 0, tok |-> 0, sawEmpty |-> FALSE]]

\* The data service builds its own pool: SouthCaptchaService(captcha_worker_count)
\* or SouthEnrollmentCaptchaService(captcha_worker_count), maxsize left at 40.
Init ==
    /\ RestIdle
    /\ poolKind = "south"
    /\ maxsizeArg = DefaultMaxsize
    /\ tokLimit = MaxTokens
    /\ startErr = FALSE
    /\ client = NoClient
    /\ cons = NoCons
    /\ hist = NoHist
    /\ variant \in Variants
    /\ supplier \in Suppliers
    /\ dsRunning = FALSE
    /\ execShutdown = FALSE
    /\ tasks = <<>>
    /\ workQueue = <<>>
    /\ futures = <<>>
    /\ results = <<>>
    /\ gen = [q \in QuerySets |-> 0]
    /\ pool = <<>>
    /\ poolRunning = FALSE
    /\ cw = NewThreads(poolKind)
    /\ nextTok = 1
    /\ ctl = "new"
    /\ nextQS = 1
    /\ waitSnap = {}
    /\ stopWait = FALSE

\* ------------------------------------------------------- captcha token pool

\* Mutant of CaptchaStart: `if not self._running` is missing.
M_CaptchaStart_NoGuard ==
    /\ poolRunning' = TRUE
    /\ IF \A w \in DOMAIN cw : cw[w].pc = "new"
       THEN /\ cw' = [w \in DOMAIN cw |-> [cw[w] EXCEPT !.pc = "top"]]
            /\ startErr' = startErr
       ELSE /\ cw' = cw
            /\ startErr' = TRUE

\* AbstractCaptchaService.start: when the flag is clear, set it and start
\* every worker thread. The threads are created once, in __init__, and
\* Thread.start() on a thread that was started before raises RuntimeError,
\* which leaves start() at the first thread of the list.
CaptchaStart ==
    IF poolRunning
    THEN UNCHANGED <<poolRunning, cw, startErr>>
    ELSE /\ poolRunning' = TRUE
         /\ IF \A w \in DOMAIN cw : cw[w].pc = "new"
            THEN /\ cw' = [w \in DOMAIN cw |-> [cw[w] EXCEPT !.pc = "top"]]
                 /\ startErr' = startErr
            ELSE /\ cw' = cw
                 /\ startErr' = TRUE

\* AbstractCaptchaService.shutdown: clears the flag and nothing else.
CaptchaShutdown == poolRunning' = FALSE

\* _add_captcha_to_pool, `while self._running:`.
CwTop(w) ==
    /\ cw[w].pc = "top"
    /\ cw' = [cw EXCEPT ![w].pc = IF poolRunning THEN "mid" ELSE "exit"]
    /\ UNCHANGED <<pool, poolRunning, nextTok, startErr>>
    /\ UNCHANGED <<orchVars, ctlVars, cfgVars, hist>>

\* Mutant of CwMid: the worker waits on not_full while the queue is full.
M_CwMid_WaitsForRoom(w) ==
    /\ cw[w].pc = "mid"
    /\ Len(pool) < DefaultMaxsize
    /\ cw' = [cw EXCEPT ![w].pc = IF poolRunning THEN "fetch" ELSE "exit"]
    /\ UNCHANGED <<pool, poolRunning, nextTok, startErr>>
    /\ UNCHANGED <<orchVars, ctlVars, cfgVars, hist>>

\* `with self._captcha_result_pool.not_full: pass` takes and releases the
\* queue's mutex without waiting on the condition; then the second look at
\* the flag, `if not self._running: return`.
CwMid(w) ==
    /\ cw[w].pc = "mid"
    /\ cw' = [cw EXCEPT ![w].pc = IF poolRunning THEN "fetch" ELSE "exit"]
    /\ UNCHANGED <<pool, poolRunning, nextTok, startErr>>
    /\ UNCHANGED <<orchVars, ctlVars, cfgVars, hist>>

\* What one turn of `while not code:` can come to: the fetch raised, solve
\* returned None, solve returned a code.
FetchOutcomes == {"raised", "unsolvable", "solved"}

\* Mutant of CwFetch: the flag is looked at once more after solving.
M_CwFetch_ChecksFlag(w, outcome) ==
    /\ cw[w].pc = "fetch"
    /\ CASE outcome = "solved" ->
                /\ nextTok <= tokLimit
                /\ cw' = [cw EXCEPT ![w] =
                            IF poolRunning
                            THEN [pc |-> "put", tok |-> nextTok, late |-> FALSE,
                                  ctx |-> nextTok]
                            ELSE [pc |-> "exit", tok |-> 0, late |-> FALSE,
                                  ctx |-> nextTok]]
                /\ nextTok' = nextTok + 1
         [] outcome = "unsolvable" ->
                /\ cw' = [cw EXCEPT ![w].ctx = -1, ![w].late = ~poolRunning]
                /\ nextTok' = nextTok
         [] outcome = "raised" ->
                /\ cw' = [cw EXCEPT ![w].late = ~poolRunning]
                /\ nextTok' = nextTok
    /\ UNCHANGED <<pool, poolRunning, startErr>>
    /\ UNCHANGED <<orchVars, ctlVars, cfgVars, hist>>

\* Mutant of CwFetch: the loop ends after one turn, whatever solve returned.
M_CwFetch_NoRetry(w, outcome) ==
    /\ cw[w].pc = "fetch"
    /\ CASE outcome = "solved" ->
                /\ nextTok <= tokLimit
                /\ cw' = [cw EXCEPT ![w] =
                            [pc |-> "put", tok |-> nextTok, late |-> ~poolRunning,
                             ctx |-> nextTok]]
                /\ nextTok' = nextTok + 1
         [] outcome = "unsolvable" ->
                /\ cw' = [cw EXCEPT ![w] =
                            [pc |-> "put", tok |-> 0, late |-> ~poolRunning,
                             ctx |-> -1]]
                /\ nextTok' = nextTok
         [] outcome = "raised" ->
                /\ cw' = [cw EXCEPT ![w].late = ~poolRunning]
                /\ nextTok' = nextTok
    /\ UNCHANGED <<pool, poolRunning, startErr>>
    /\ UNCHANGED <<orchVars, ctlVars, cfgVars, hist>>

\* One turn of `while not code:`,
\*     img, t = self._get_captcha_from_remote(); code = southocr.solve(img)
\* inside try/except Exception. A fetch that raises assigns nothing; an
\* unsolvable image leaves code None and t the context of that fetch; with a
\* code the loop ends and put() is next. The flag is not read here: late
\* remembers that shutdown() had already cleared it when the turn ended.
CwFetch(w, outcome) ==
    /\ cw[w].pc = "fetch"
    /\ CASE outcome = "solved" ->
                /\ nextTok <= tokLimit
                /\ cw' = [cw EXCEPT ![w] =
                            [pc |-> "put", tok |-> nextTok, late |-> ~poolRunning,
                             ctx |-> nextTok]]
                /\ nextTok' = nextTok + 1
         [] outcome = "unsolvable" ->
                /\ cw' = [cw EXCEPT ![w].ctx = -1, ![w].late = ~poolRunning]
                /\ nextTok' = nextTok
         [] outcome = "raised" ->
                /\ cw' = [cw EXCEPT ![w].late = ~poolRunning]
                /\ nextTok' = nextTok
    /\ UNCHANGED <<pool, poolRunning, startErr>>
    /\ UNCHANGED <<orchVars, ctlVars, cfgVars, hist>>

\* The item put((code, t)) inserts: the token of fetch n when the code and
\* the context both come from fetch n, 0 for any other pair.
Token(code, ctx) == IF code > 0 /\ ctx = code THEN code ELSE 0

\* Mutant of CwPut: the insertion does not wait for room.
M_CwPut_NoBlock(w) ==
    /\ cw[w].pc = "put"
    /\ pool' = Append(pool, Token(cw[w].tok, cw[w].ctx))
    /\ cw' = [cw EXCEPT ![w] = [pc |-> "top", tok |-> 0, late |-> FALSE,
                                 ctx |-> cw[w].ctx]]
    /\ UNCHANGED <<poolRunning, nextTok, startErr>>
    /\ UNCHANGED <<orchVars, ctlVars, cfgVars, hist>>

\* `self._captcha_result_pool.put((code, t))`: blocks while the queue is full.
CwPut(w) ==
    /\ cw[w].pc = "put"
    /\ Len(pool) < DefaultMaxsize
    /\ pool' = Append(pool, Token(cw[w].tok, cw[w].ctx))
    /\ cw' = [cw EXCEPT ![w] = [pc |-> "top", tok |-> 0, late |-> FALSE,
                                 ctx |-> cw[w].ctx]]
    /\ UNCHANGED <<poolRunning, nextTok, startErr>>
    /\ UNCHANGED <<orchVars, ctlVars, cfgVars, hist>>

\* --------------------------------------------------------------- controller
\* One controller thread uses the service the way persistenceservice.py and
\* examples.py do: start(), then wait() and/or stop(wait).

\* AbstractDataService.start up to its loop: start the captcha service, set
\* the running flag.
StartBegin ==
    /\ ctl = "new"
    /\ ~dsRunning
    /\ CaptchaStart
    /\ dsRunning' = TRUE
    /\ ctl' = "submitting"
    /\ UNCHANGED <<pool, nextTok>>
    /\ UNCHANGED <<execShutdown, tasks, workQueue, futures, results, gen>>
    /\ UNCHANGED <<nextQS, waitSnap, stopWait, cfgVars, hist>>

\* One turn of start()'s loop: submit _fetch for the next QuerySet and append
\* its future; after the last one start() returns.
StartSubmit ==
    /\ ctl = "submitting"
    /\ nextQS <= NumQuerySets
    /\ tasks' = Append(tasks, NewTask(nextQS, 0))
    /\ workQueue' = Append(workQueue, Len(tasks) + 1)
    /\ futures' = Append(futures, Len(tasks) + 1)
    /\ nextQS' = nextQS + 1
    /\ ctl' = IF nextQS = NumQuerySets THEN "started" ELSE "submitting"
    /\ UNCHANGED <<dsRunning, execShutdown, results, gen>>
    /\ UNCHANGED <<waitSnap, stopWait, poolVars, cfgVars, hist>>

IsDone(t) == tasks[t].pc = "done"

\* AbstractDataService.wait: concurrent.futures.wait(self._futures) works on
\* the futures the list holds when it is called (it copies them, and raises
\* no ValueError when the list grows meanwhile), returning at once when all
\* of them are finished.
WaitCall ==
    /\ ctl = "started"
    /\ waitSnap' = SeqToSet(futures)
    /\ ctl' = IF \A t \in SeqToSet(futures) : IsDone(t) THEN "waited" ELSE "waiting"
    /\ UNCHANGED <<nextQS, stopWait>>
    /\ UNCHANGED <<orchVars, poolVars, cfgVars, hist>>

\* The blocked concurrent.futures.wait returns once the futures it was
\* called on are finished; no exception, so `done = True` and wait() returns.
WaitReturn ==
    /\ ctl = "waiting"
    /\ \A t \in waitSnap : IsDone(t)
    /\ ctl' = "waited"
    /\ UNCHANGED <<nextQS, waitSnap, stopWait>>
    /\ UNCHANGED <<orchVars, poolVars, cfgVars, hist>>

\* AbstractDataService.stop, first statement: `self._running = False`.
StopCall(w) ==
    /\ ctl \in {"started", "waited"}
    /\ dsRunning
    /\ dsRunning' = FALSE
    /\ stopWait' = w
    /\ ctl' = "stop_captcha"
    /\ UNCHANGED <<execShutdown, tasks, workQueue, futures, results, gen>>
    /\ UNCHANGED <<nextQS, waitSnap, poolVars, cfgVars, hist>>

\* stop: `self._captcha_service.shutdown()`.
StopCaptcha ==
    /\ ctl = "stop_captcha"
    /\ CaptchaShutdown
    /\ ctl' = "stop_executor"
    /\ UNCHANGED <<pool, cw, nextTok, startErr>>
    /\ UNCHANGED <<nextQS, waitSnap, stopWait, orchVars, cfgVars, hist>>

\* stop: `self._thread_pool_executor.shutdown(wait=wait)` sets the executor's
\* shutdown flag; with wait=False stop() returns here.
StopExecutor ==
    /\ ctl = "stop_executor"
    /\ execShutdown' = TRUE
    /\ ctl' = IF stopWait THEN "joining" ELSE "stopped"
    /\ UNCHANGED <<dsRunning, tasks, workQueue, futures, results, gen>>
    /\ UNCHANGED <<nextQS, waitSnap, stopWait, poolVars, cfgVars, hist>>

\* Mutant of StopJoin: stop(wait=True) returns without joining.
M_StopJoin_NoWait ==
    /\ ctl = "joining"
    /\ ctl' = "stopped"
    /\ UNCHANGED <<nextQS, waitSnap, stopWait>>
    /\ UNCHANGED <<orchVars, poolVars, cfgVars, hist>>

\* stop(wait=True): shutdown joins the worker threads, which drain the work
\* queue first, and concurrent.futures.wait(self._futures) then finds every
\* future finished.
StopJoin ==
    /\ ctl = "joining"
    /\ \A t \in TaskIds : IsDone(t)
    /\ ctl' = "stopped"
    /\ UNCHANGED <<nextQS, waitSnap, stopWait>>
    /\ UNCHANGED <<orchVars, poolVars, cfgVars, hist>>

\* ------------------------------------------------------ orchestrator tasks

\* _fetch0's mapping from the JSON status code to what it returns or raises.
Classify(v, status) ==
    IF v = "score"
    THEN CASE status = -4 -> "invalid_ymob"
           [] status = 1 -> "success"
           [] status = -2 -> "invalid_captcha"
           [] status = -3 -> "invalid_sid"
           [] OTHER -> "unknown"
    ELSE CASE status = -3 -> "invalid_ymob"
           [] status = 1 \/ status = -4 -> "success"
           [] status = -1 -> "invalid_captcha"
           [] status = -2 -> "invalid_sid"
           [] OTHER -> "unknown"

\* What _fetch0 does with one response: RuntimeError for a failed request or
\* JSON decoding, an ordinary Exception (KeyError and the like) for a body
\* missing what is read from it, else the classification of the status.
Outcome(v, r) ==
    CASE r.kind = "transport" -> "transport"
      [] r.kind = "malformed" -> "exception"
      [] OTHER -> Classify(v, r.code)

\* The worker threads of ThreadPoolExecutor(worker_count) that hold a task.
Busy == {t \in TaskIds : tasks[t].pc \notin {"queued", "done"}}

Resubmitted == {t \in TaskIds : tasks[t].parent # 0}

\* The task with its `last` field recording the response just received.
Seen(t, o) ==
    [tasks[t] EXCEPT !.last = [key |-> tasks[t].key, token |-> tasks[t].token,
                               outcome |-> o]]

Ended(tk, how) == [tk EXCEPT !.pc = "done", !.result = how]

\* Mutant of HasNext: the loop runs one key past the end of the set.
M_HasNext_OffByOne(tk) ==
    IF supplier = "generator" THEN gen[tk.qs] <= NumKeys ELSE tk.key <= NumKeys

\* `for i, (sid, ymob) in enumerate(query_set)`: a tuple is iterated by each
\* task from its start; a generator object is shared by every task that was
\* handed it and yields each key once.
HasNext(tk) ==
    IF supplier = "generator" THEN gen[tk.qs] < NumKeys ELSE tk.key < NumKeys

NextKey(tk) ==
    IF supplier = "generator" THEN gen[tk.qs] + 1 ELSE tk.key + 1

\* The for loop takes its next key and enters `while not skip` with
\* captcha_valid = True, or is exhausted: 'No valid YMOB for SID', return.
Advance(t, tk) ==
    IF HasNext(tk)
    THEN /\ tasks' = [tasks EXCEPT ![t] = [tk EXCEPT !.key = NextKey(tk), !.pc = "request"]]
         /\ gen' = IF supplier = "generator" THEN [gen EXCEPT ![tk.qs] = @ + 1] ELSE gen
    ELSE /\ tasks' = [tasks EXCEPT ![t] = Ended(tk, "returned")]
         /\ gen' = gen

\* Mutant of Begin: _fetch does not look at the flag on entry.
M_Begin_NoFlagCheck(t) ==
    /\ workQueue # <<>>
    /\ t = Head(workQueue)
    /\ Cardinality(Busy) < WorkerCount
    /\ workQueue' = Tail(workQueue)
    /\ tasks' = [tasks EXCEPT ![t] = [tasks[t] EXCEPT !.pc = "get0"]]
    /\ UNCHANGED <<dsRunning, execShutdown, futures, results, gen>>
    /\ UNCHANGED <<poolVars, ctlVars, cfgVars, hist>>

\* A worker thread takes the head of the work queue and enters _fetch:
\* `if not self._running: return`, else on to the first get_captcha_result().
Begin(t) ==
    /\ workQueue # <<>>
    /\ t = Head(workQueue)
    /\ Cardinality(Busy) < WorkerCount
    /\ workQueue' = Tail(workQueue)
    /\ tasks' = [tasks EXCEPT ![t] =
                    IF dsRunning THEN [tasks[t] EXCEPT !.pc = "get0"]
                    ELSE Ended(tasks[t], "returned")]
    /\ UNCHANGED <<dsRunning, execShutdown, futures, results, gen>>
    /\ UNCHANGED <<poolVars, ctlVars, cfgVars, hist>>

\* Mutant of GetToken: the token is read but stays in the queue.
M_GetToken_Peek(t) ==
    /\ tasks[t].pc \in {"get0", "get1"}
    /\ pool # <<>>
    /\ pool' = pool
    /\ hist' = [hist EXCEPT !.handed = Append(@, Head(pool))]
    /\ LET tk == [tasks[t] EXCEPT !.token = Head(pool)]
       IN  IF tasks[t].pc = "get0"
           THEN Advance(t, tk)
           ELSE /\ tasks' = [tasks EXCEPT ![t] = [tk EXCEPT !.pc = "request"]]
                /\ gen' = gen
    /\ UNCHANGED <<dsRunning, execShutdown, workQueue, futures, results>>
    /\ UNCHANGED <<poolRunning, cw, nextTok, startErr, ctlVars, cfgVars>>

\* get_captcha_result(): Queue.get() blocks while the pool is empty. Before
\* the loop (get0) the for loop then takes its first key; inside the loop
\* (get1, captcha_valid was False) the same key is requested again.
GetToken(t) ==
    /\ tasks[t].pc \in {"get0", "get1"}
    /\ pool # <<>>
    /\ pool' = Tail(pool)
    /\ hist' = [hist EXCEPT !.handed = Append(@, Head(pool))]
    /\ LET tk == [tasks[t] EXCEPT !.token = Head(pool)]
       IN  IF tasks[t].pc = "get0"
           THEN Advance(t, tk)
           ELSE /\ tasks' = [tasks EXCEPT ![t] = [tk EXCEPT !.pc = "request"]]
                /\ gen' = gen
    /\ UNCHANGED <<dsRunning, execShutdown, workQueue, futures, results>>
    /\ UNCHANGED <<poolRunning, cw, nextTok, startErr, ctlVars, cfgVars>>

\* Mutant of HandleSuccess: the record is added but the `return` is missing,
\* so the while loop goes round again.
M_HandleSuccess_NoReturn(t) ==
    /\ results' = Append(results, [qs |-> tasks[t].qs, key |-> tasks[t].key, task |-> t])
    /\ tasks' = [tasks EXCEPT ![t] = Seen(t, "success")]
    /\ UNCHANGED <<workQueue, gen>>

\* Mutant of HandleSuccess: a record that arrives after stop() is dropped.
M_HandleSuccess_DropsWhenStopped(t) ==
    /\ results' = IF dsRunning
                  THEN Append(results, [qs |-> tasks[t].qs, key |-> tasks[t].key,
                                        task |-> t])
                  ELSE results
    /\ tasks' = [tasks EXCEPT ![t] = Ended(Seen(t, "success"), "returned")]
    /\ UNCHANGED <<workQueue, gen>>

\* _fetch0 returned the parsed record: _add_result, log, return.
HandleSuccess(t) ==
    /\ results' = Append(results, [qs |-> tasks[t].qs, key |-> tasks[t].key, task |-> t])
    /\ tasks' = [tasks EXCEPT ![t] = Ended(Seen(t, "success"), "returned")]
    /\ UNCHANGED <<workQueue, gen>>

\* Mutant of HandleInvalidYMOB: skip is not set, the same key is retried.
M_HandleInvalidYMOB_Retry(t) ==
    /\ tasks' = [tasks EXCEPT ![t] = Seen(t, "invalid_ymob")]
    /\ UNCHANGED <<workQueue, results, gen>>

\* except InvalidYMOBException: skip = True, so the for loop moves on.
HandleInvalidYMOB(t) ==
    /\ Advance(t, Seen(t, "invalid_ymob"))
    /\ UNCHANGED <<workQueue, results>>

\* Mutant of HandleInvalidSID: handled like an invalid secondary key.
M_HandleInvalidSID_Skip(t) ==
    /\ Advance(t, Seen(t, "invalid_sid"))
    /\ UNCHANGED <<workQueue, results>>

\* except InvalidSIDException: warning, return.
HandleInvalidSID(t) ==
    /\ tasks' = [tasks EXCEPT ![t] = Ended(Seen(t, "invalid_sid"), "returned")]
    /\ UNCHANGED <<workQueue, results, gen>>

\* Mutant of HandleInvalidCaptcha: captcha_valid is left True, so the
\* rejected token is sent again.
M_HandleInvalidCaptcha_KeepToken(t) ==
    /\ tasks' = [tasks EXCEPT ![t] = Seen(t, "invalid_captcha")]
    /\ UNCHANGED <<workQueue, results, gen>>

\* except InvalidCaptchaException: captcha_valid = False, so the next turn of
\* the while loop starts with get_captcha_result().
HandleInvalidCaptcha(t) ==
    /\ tasks' = [tasks EXCEPT ![t] =
                    [Seen(t, "invalid_captcha") EXCEPT !.pc = "get1"]]
    /\ UNCHANGED <<workQueue, results, gen>>

\* Mutant of HandleTransport: the failing task returns without resubmitting.
M_HandleTransport_NoResubmit(t) ==
    /\ tasks' = [tasks EXCEPT ![t] = Ended(Seen(t, "transport"), "returned")]
    /\ UNCHANGED <<workQueue, results, gen>>

\* Mutant of HandleTransport: the task resubmits but does not return, so it
\* goes on requesting beside the task it scheduled.
M_HandleTransport_NoReturn(t) ==
    /\ results' = results
    /\ gen' = gen
    /\ IF execShutdown
       THEN /\ tasks' = [tasks EXCEPT ![t] = Ended(Seen(t, "transport"), "returned")]
            /\ workQueue' = workQueue
       ELSE /\ Cardinality(Resubmitted) < MaxResubmits
            /\ tasks' = Append([tasks EXCEPT ![t] = Seen(t, "transport")],
                               NewTask(tasks[t].qs, t))
            /\ workQueue' = Append(workQueue, Len(tasks) + 1)

\* Mutant of HandleTransport: submit accepts the task whatever the state of
\* the executor.
M_HandleTransport_SubmitsAfterShutdown(t) ==
    /\ results' = results
    /\ gen' = gen
    /\ Cardinality(Resubmitted) < MaxResubmits
    /\ tasks' = Append([tasks EXCEPT ![t] =
                           [Seen(t, "transport") EXCEPT !.pc = "submitted"]],
                       NewTask(tasks[t].qs, t))
    /\ workQueue' = Append(workQueue, Len(tasks) + 1)

\* except RuntimeError: executor.submit(self._fetch, query_set). After the
\* executor's shutdown submit raises RuntimeError inside the handler, which
\* leaves _fetch and is caught and logged by MultithreadingHelper.wrapped.
HandleTransport(t) ==
    /\ results' = results
    /\ gen' = gen
    /\ IF execShutdown
       THEN /\ tasks' = [tasks EXCEPT ![t] = Ended(Seen(t, "transport"), "returned")]
            /\ workQueue' = workQueue
       ELSE /\ Cardinality(Resubmitted) < MaxResubmits
            /\ tasks' = Append([tasks EXCEPT ![t] =
                                   [Seen(t, "transport") EXCEPT !.pc = "submitted"]],
                               NewTask(tasks[t].qs, t))
            /\ workQueue' = Append(workQueue, Len(tasks) + 1)

\* Mutant of HandleUnknown: the exception is caught by `except Exception`
\* and the loop goes round again.
M_HandleUnknown_Caught(t) ==
    /\ tasks' = [tasks EXCEPT ![t] = Seen(t, "unknown")]
    /\ UNCHANGED <<workQueue, results, gen>>

\* UnknownResponseException derives from BaseException: no except clause of
\* _fetch matches it, nor wrapped's `except Exception`; the executor stores
\* it in the task's future.
HandleUnknown(t) ==
    /\ tasks' = [tasks EXCEPT ![t] = Ended(Seen(t, "unknown"), "raised")]
    /\ UNCHANGED <<workQueue, results, gen>>

\* Mutant of HandleException: the exception leaves the task.
M_HandleException_Propagates(t) ==
    /\ tasks' = [tasks EXCEPT ![t] = Ended(Seen(t, "exception"), "raised")]
    /\ UNCHANGED <<workQueue, results, gen>>

\* except Exception: logged; skip and captcha_valid are as they were, so the
\* while loop issues the same request again.
HandleException(t) ==
    /\ tasks' = [tasks EXCEPT ![t] = Seen(t, "exception")]
    /\ UNCHANGED <<workQueue, results, gen>>

\* The remote call of a task returns r.
Respond(t, r) ==
    /\ tasks[t].pc = "request"
    /\ hist' = IF Outcome(variant, r) = "invalid_captcha"
               THEN [hist EXCEPT !.rejected = @ \cup {tasks[t].token}]
               ELSE hist
    /\ \/ Outcome(variant, r) = "success" /\ HandleSuccess(t)
       \/ Outcome(variant, r) = "invalid_ymob" /\ HandleInvalidYMOB(t)
       \/ Outcome(variant, r) = "invalid_sid" /\ HandleInvalidSID(t)
       \/ Outcome(variant, r) = "invalid_captcha" /\ HandleInvalidCaptcha(t)
       \/ Outcome(variant, r) = "transport" /\ HandleTransport(t)
       \/ Outcome(variant, r) = "unknown" /\ HandleUnknown(t)
       \/ Outcome(variant, r) = "exception" /\ HandleException(t)
    /\ UNCHANGED <<dsRunning, execShutdown, futures>>
    /\ UNCHANGED <<poolVars, ctlVars, cfgVars>>

ChildOf(t) == CHOOSE c \in TaskIds : tasks[c].parent = t

\* After a successful submit: self._futures.append(future), return.
AppendFuture(t) ==
    /\ tasks[t].pc = "submitted"
    /\ futures' = Append(futures, ChildOf(t))
    /\ tasks' = [tasks EXCEPT ![t] = Ended(tasks[t], "returned")]
    /\ UNCHANGED <<dsRunning, execShutdown, workQueue, results, gen>>
    /\ UNCHANGED <<poolVars, ctlVars, cfgVars, hist>>

\* ------------------------------------------------------------ specification

Next ==
    \/ StartBegin
    \/ StartSubmit
    \/ WaitCall
    \/ WaitReturn
    \/ \E w \in BOOLEAN : StopCall(w)
    \/ StopCaptcha
    \/ StopExecutor
    \/ StopJoin
    \/ \E w \in CaptchaWorkers : CwTop(w)
    \/ \E w \in CaptchaWorkers : CwMid(w)
    \/ \E w \in CaptchaWorkers, o \in FetchOutcomes : CwFetch(w, o)
    \/ \E w \in CaptchaWorkers : CwPut(w)
    \/ \E t \in TaskIds : Begin(t)
    \/ \E t \in TaskIds : GetToken(t)
    \/ \E t \in TaskIds, r \in Responses : Respond(t, r)
    \/ \E t \in TaskIds : AppendFuture(t)

Spec == Init /\ [][Next]_vars

\* ------------------------------------------- the captcha service on its own
\* A captcha service constructed directly, as captchaservice.py's __main__
\* block does: one client thread calls start() and shutdown(), consumer
\* threads call get_captcha_result(). No data service is running.

DsIdle ==
    /\ variant = "score"
    /\ supplier = "tuple"
    /\ dsRunning = FALSE
    /\ execShutdown = FALSE
    /\ tasks = <<>>
    /\ workQueue = <<>>
    /\ futures = <<>>
    /\ results = <<>>
    /\ gen = [q \in QuerySets |-> 0]
    /\ ctl = "new"
    /\ nextQS = 1
    /\ waitSnap = {}
    /\ stopWait = FALSE

\* SouthCaptchaService(worker_count, maxsize) or NoCaptchaService().
PoolInit ==
    /\ DsIdle
    /\ RestIdle
    /\ poolKind \in PoolKinds
    /\ maxsizeArg \in 1..MaxsizeArgMax
    /\ tokLimit = MaxTokens
    /\ pool = <<>>
    /\ poolRunning = FALSE
    /\ cw = NewThreads(poolKind)
    /\ nextTok = 1
    /\ startErr = FALSE
    /\ client = NoClient
    /\ cons = NoCons
    /\ hist = NoHist

\* Mutant of NoCaptchaStart: the override is missing and the inherited
\* start() runs.
M_NoCaptchaStart_Inherited == CaptchaStart

\* NoCaptchaService.start: a log line.
NoCaptchaStart == UNCHANGED <<poolRunning, cw, startErr>>

\* NoCaptchaService.shutdown: a log line.
NoCaptchaShutdown == UNCHANGED poolRunning

\* The client calls start().
PoolStart ==
    /\ client.starts < MaxStartCalls
    /\ client' = [client EXCEPT !.starts = @ + 1]
    /\ IF poolKind = "none" THEN NoCaptchaStart ELSE CaptchaStart
    /\ UNCHANGED <<pool, nextTok, cons, hist>>
    /\ UNCHANGED <<orchVars, ctlVars, dsCfg, poolCfg, restVars>>

\* The client calls shutdown().
PoolShutdown ==
    /\ client.shutdowns < MaxStartCalls
    /\ client' = [client EXCEPT !.shutdowns = @ + 1]
    /\ IF poolKind = "none" THEN NoCaptchaShutdown ELSE CaptchaShutdown
    /\ UNCHANGED <<pool, cw, nextTok, startErr, cons, hist>>
    /\ UNCHANGED <<orchVars, ctlVars, dsCfg, poolCfg, restVars>>

\* NoCaptchaService.get_captcha_result: `return None` (token 0).
NoCaptchaGet(c) ==
    /\ cons' = [cons EXCEPT ![c] = [pc |-> "idle", n |-> @.n + 1, tok |-> 0,
                                     sawEmpty |-> @.sawEmpty]]
    /\ UNCHANGED <<pool, hist>>

\* A consumer calls get_captcha_result(). On SouthCaptchaService it is now
\* inside Queue.get(); sawEmpty remembers that it found the buffer empty.
GetCall(c) ==
    /\ cons[c].pc = "idle"
    /\ cons[c].n < MaxGets
    /\ IF poolKind = "none"
       THEN NoCaptchaGet(c)
       ELSE /\ cons' = [cons EXCEPT ![c].pc = "in_get", ![c].sawEmpty = (pool = <<>>)]
            /\ UNCHANGED <<pool, hist>>
    /\ UNCHANGED <<poolRunning, cw, nextTok, startErr, client>>
    /\ UNCHANGED <<orchVars, ctlVars, dsCfg, poolCfg, restVars>>

\* Mutant of SouthGet: get_nowait-like, an empty buffer yields None.
M_SouthGet_NoBlock(c) ==
    /\ cons[c].pc = "in_get"
    /\ IF pool = <<>>
       THEN /\ cons' = [cons EXCEPT ![c].pc = "idle", ![c].n = @ + 1, ![c].tok = 0]
            /\ UNCHANGED <<pool, hist>>
       ELSE /\ pool' = Tail(pool)
            /\ cons' = [cons EXCEPT ![c].pc = "idle", ![c].n = @ + 1, ![c].tok = Head(pool)]
            /\ hist' = [hist EXCEPT !.handed = Append(@, Head(pool))]

\* SouthCaptchaService.get_captcha_result: Queue.get() waits while the queue
\* is empty, then removes and returns its oldest item.
SouthGet(c) ==
    /\ cons[c].pc = "in_get"
    /\ pool # <<>>
    /\ pool' = Tail(pool)
    /\ cons' = [cons EXCEPT ![c].pc = "idle", ![c].n = @ + 1, ![c].tok = Head(pool)]
    /\ hist' = [hist EXCEPT !.handed = Append(@, Head(pool))]

\* The consumer's get_captcha_result() returns.
GetReturn(c) ==
    /\ SouthGet(c)
    /\ UNCHANGED <<poolRunning, cw, nextTok, startErr, client>>
    /\ UNCHANGED <<orchVars, ctlVars, dsCfg, poolCfg, restVars>>

PoolNext ==
    \/ PoolStart
    \/ PoolShutdown
    \/ \E w \in DOMAIN cw : CwTop(w)
    \/ \E w \in DOMAIN cw : CwMid(w)
    \/ \E w \in DOMAIN cw, o \in FetchOutcomes : CwFetch(w, o)
    \/ \E w \in DOMAIN cw : CwPut(w)
    \/ \E c \in Consumers : GetCall(c)
    \/ \E c \in Consumers : GetReturn(c)

PoolSpec == PoolInit /\ [][PoolNext]_vars

\* A SouthCaptchaService whose remote site serves more solvable challenges
\* than the queue and the workers can hold, so that the queue fills up.
FillInit ==
    /\ DsIdle
    /\ RestIdle
    /\ poolKind = "south"
    /\ maxsizeArg = DefaultMaxsize
    /\ tokLimit = DefaultMaxsize + CaptchaWorkerCount + 1
    /\ pool = <<>>
    /\ poolRunning = FALSE
    /\ cw = NewThreads(poolKind)
    /\ nextTok = 1
    /\ startErr = FALSE
    /\ client = NoClient
    /\ cons = NoCons
    /\ hist = NoHist

FillSpec == FillInit /\ [][PoolNext]_vars

\* ------------------------------------------------------------ the result sink
\* _add_result and get_result_list on their own: records arrive in the sink,
\* a caller (persistenceservice.py asks after wait()) gets the result list
\* and may then change the list it was given, or a record in it.

PoolIdle ==
    /\ poolKind = "south"
    /\ maxsizeArg = DefaultMaxsize
    /\ tokLimit = MaxTokens
    /\ pool = <<>>
    /\ poolRunning = FALSE
    /\ cw = NewThreads("south")
    /\ nextTok = 1
    /\ startErr = FALSE
    /\ client = NoClient
    /\ cons = NoCons
    /\ hist = NoHist

SinkInit == DsIdle /\ PoolIdle /\ RestIdle

SinkRecords == {[qs |-> q, key |-> k, task |-> 1] : q \in QuerySets, k \in 1..NumKeys}

\* What a caller appends to a list of its own making.
Junk == [qs |-> 0, key |-> 0, task |-> 0]

\* A list the caller holds is made of cells: a cell either is the very
\* record object the sink holds at idx (shared) or an object of its own.
\* deepcopy builds a new list of new record objects.
DeepCopy(rs) == [i \in DOMAIN rs |-> [shared |-> FALSE, idx |-> i, val |-> rs[i]]]

\* A new list of the same record objects, as list(rs) or copy.copy(rs) build.
ShallowCopy(rs) == [i \in DOMAIN rs |-> [shared |-> TRUE, idx |-> i, val |-> rs[i]]]

CellVal(c) == IF c.shared THEN results[c.idx] ELSE c.val

\* What the caller reads in the list it holds.
Content ==
    IF view.alias THEN results
    ELSE [i \in DOMAIN view.list |-> CellVal(view.list[i])]

\* _add_result: self._results.append(result).
AddResult(r) ==
    /\ Len(results) < MaxRecords
    /\ results' = Append(results, r)
    /\ UNCHANGED <<dsRunning, execShutdown, tasks, workQueue, futures, gen>>
    /\ UNCHANGED <<poolVars, ctlVars, cfgVars, hist>>

\* Mutant of GetResultList: copy=True copies the list but not the records.
M_GetResultList_Shallow(copy) ==
    /\ view' = [asked |-> IF copy THEN "copy" ELSE "live",
                alias |-> ~copy,
                list |-> IF copy THEN ShallowCopy(results) ELSE <<>>,
                muts |-> view.muts]
    /\ UNCHANGED <<orchVars, poolVars, ctlVars, dsCfg, poolCfg, apiVars, ocrVars, localVars, hist>>

\* get_result_list(copy): deepcopy(self._results), or self._results itself.
GetResultList(copy) ==
    /\ view' = [asked |-> IF copy THEN "copy" ELSE "live",
                alias |-> ~copy,
                list |-> IF copy THEN DeepCopy(results) ELSE <<>>,
                muts |-> view.muts]
    /\ UNCHANGED <<orchVars, poolVars, ctlVars, dsCfg, poolCfg, apiVars, ocrVars, localVars, hist>>

\* The caller appends to the list it holds.
ViewAppend ==
    /\ view.asked # "none"
    /\ view.muts < MaxViewMuts
    /\ IF view.alias
       THEN /\ results' = Append(results, Junk)
            /\ view' = [view EXCEPT !.muts = @ + 1]
       ELSE /\ results' = results
            /\ view' = [view EXCEPT !.muts = @ + 1,
                           !.list = Append(@, [shared |-> FALSE, idx |-> 0, val |-> Junk])]
    /\ UNCHANGED <<dsRunning, execShutdown, tasks, workQueue, futures, gen>>
    /\ UNCHANGED <<poolVars, ctlVars, dsCfg, poolCfg, apiVars, ocrVars, localVars, hist>>

\* The caller changes a field of the i-th record of the list it holds.
ViewSet(i) ==
    /\ view.asked # "none"
    /\ view.muts < MaxViewMuts
    /\ i \in DOMAIN Content
    /\ IF view.alias
       THEN /\ results' = [results EXCEPT ![i].key = 0]
            /\ view' = [view EXCEPT !.muts = @ + 1]
       ELSE IF view.list[i].shared
            THEN /\ results' = [results EXCEPT ![view.list[i].idx].key = 0]
                 /\ view' = [view EXCEPT !.muts = @ + 1]
            ELSE /\ results' = results
                 /\ view' = [view EXCEPT !.muts = @ + 1, !.list[i].val.key = 0]
    /\ UNCHANGED <<dsRunning, execShutdown, tasks, workQueue, futures, gen>>
    /\ UNCHANGED <<poolVars, ctlVars, dsCfg, poolCfg, apiVars, ocrVars, localVars, hist>>

SinkNext ==
    \/ \E r \in SinkRecords : AddResult(r)
    \/ \E copy \in BOOLEAN : GetResultList(copy)
    \/ ViewAppend
    \/ \E i \in 1..(MaxRecords + MaxViewMuts) : ViewSet(i)

SinkSpec == SinkInit /\ [][SinkNext]_vars

\* ------------------------------------------------------------- southocr.py
\* A glyph is a bitmap of w x h pixels, each 0 (ink) or 1 (white); ink is the
\* set of its ink positions <<x, y>>, counted from 0 as PIL does.

Glyph(w, h, ink) == [w |-> w, h |-> h, ink |-> ink]

\* data[x, y]
Pixel(g, x, y) == IF <<x, y>> \in g.ink THEN 0 ELSE 1

Max(S) == CHOOSE m \in S : \A n \in S : n <= m

\* The body of calculate_similarity's innermost loops, summed over the
\* candidate's pixels, with the sample pixel taken at (x + dx, y + dy):
\* +1 where both are ink, 0 where both are white, -1 where they differ.
ScoreAt(c, s, dx, dy) ==
    LET cells == (0..(c.w - 1)) \X (0..(c.h - 1))
        same == {p \in cells : /\ Pixel(c, p[1], p[2]) = Pixel(s, p[1] + dx, p[2] + dy)
                               /\ Pixel(c, p[1], p[2]) = 0}
        diff == {p \in cells : Pixel(c, p[1], p[2]) # Pixel(s, p[1] + dx, p[2] + dy)}
    IN  Cardinality(same) - Cardinality(diff)

\* One turn of the loops over xoffset and yoffset (lines 51-62). The sample
\* is read as sdata[x, y]: neither offset enters the index.
OffsetScore(c, s, xoffset, yoffset) == ScoreAt(c, s, 0, 0)

calculate_similarity(c, s) ==
    IF <<c.w, c.h>> = <<s.w, s.h>>
    THEN ScoreAt(c, s, 0, 0)
    ELSE IF c.w > s.w \/ c.h > s.h
         THEN -100
         ELSE Max({OffsetScore(c, s, xoffset, yoffset) :
                    xoffset \in 0..(s.w - c.w), yoffset \in 0..(s.h - c.h)})

\* Every glyph of at most w x h pixels.
GlyphsUpTo(w, h) ==
    UNION {{Glyph(gw, gh, ink) : ink \in SUBSET ((0..(gw - 1)) \X (0..(gh - 1)))} :
            gw \in 1..w, gh \in 1..h}

Glyphs == GlyphsUpTo(MaxGlyphWidth, MaxGlyphHeight)

\* A glyph of the size of a whole character: all ink or all white.
BigGlyph(w, h, full) ==
    Glyph(w, h, IF full THEN (0..(w - 1)) \X (0..(h - 1)) ELSE {})

\* Glyphs as wide as solve leaves a character (MaxCharWidth) and as tall as
\* the text of an image.
BigGlyphs ==
    {BigGlyph(w, h, full) : w \in {MaxCharWidth - 1, MaxCharWidth},
                            h \in {TallHeight - 1, TallHeight},
                            full \in BOOLEAN}

\* calculate_similarity on its own: any candidate against any sample.
SimInit ==
    /\ DsIdle
    /\ PoolIdle
    /\ view = NoView
    /\ LocalIdle
    /\ img = <<>>
    /\ solveOut = [done |-> FALSE, none |-> FALSE, str |-> <<>>]
    /\ samples = <<>>
    /\ recOut = NoRec
    /\ cand \in Glyphs \cup BigGlyphs
    /\ samp \in Glyphs \cup BigGlyphs
    /\ simOut = [done |-> FALSE, val |-> 0]

CalculateSimilarity ==
    /\ ~simOut.done
    /\ simOut' = [done |-> TRUE, val |-> calculate_similarity(cand, samp)]
    /\ UNCHANGED <<orchVars, poolVars, ctlVars, dsCfg, poolCfg, apiVars, hist>>
    /\ UNCHANGED <<view, img, solveOut, cand, samp, samples, recOut, localVars>>

SimNext == CalculateSimilarity

SimSpec == SimInit /\ [][SimNext]_vars

\* solve(img). The image has ImgHeight rows; img.cols[x + 1] is the set of
\* rows y at which column x has the luminance img.inkLum, every other pixel
\* has img.bgLum.

ImgWidth == Len(img.cols)

\* img.convert('L')
Lum(x, y) == IF y \in img.cols[x + 1] THEN img.inkLum ELSE img.bgLum

\* img.point(lambda x: 1 if x >= 160 else 0, mode='1'), then px[x, y]
Px(x, y) == IF Lum(x, y) >= Threshold THEN 1 ELSE 0

\* Mutant of append_to_char_boxes_LR: a wide span is not split.
M_append_NoSplit(lst, left, right) == Append(lst, <<left, right>>)

\* Mutant of append_to_char_boxes_LR: a half that is still too wide is split
\* once more.
M_append_SplitAgain(lst, left, right) ==
    LET Halves(l, r) == IF r - l > MaxCharWidth
                        THEN << <<l, (l + r) \div 2>>, <<(l + r) \div 2, r>> >>
                        ELSE << <<l, r>> >>
        mid == (left + right) \div 2
    IN  IF right - left > MaxCharWidth
        THEN lst \o Halves(left, mid) \o Halves(mid, right)
        ELSE Append(lst, <<left, right>>)

append_to_char_boxes_LR(lst, left, right) ==
    IF right - left > MaxCharWidth
    THEN LET mid == (left + right) \div 2
         IN  lst \o << <<left, mid>>, <<mid, right>> >>
    ELSE Append(lst, <<left, right>>)

\* The loop `for x in range(img_width)` from column x on, with the loop's
\* variables stage, left and char_boxes_LR as they are before that turn.
RECURSIVE ScanColumns(_, _, _, _)
ScanColumns(x, stage, left, lst) ==
    IF x = ImgWidth THEN lst
    ELSE
        LET empty_column == \A y \in 0..(ImgHeight - 1) : Px(x, y) # 0
            found == ~empty_column /\ stage = STAGE_SEARCHING_FOR_CHAR
            stage1 == IF found THEN STAGE_PROCESSING_CHAR ELSE stage
            left1 == IF found THEN x ELSE left
        IN  IF stage1 = STAGE_PROCESSING_CHAR /\ empty_column
            THEN ScanColumns(x + 1, STAGE_SEARCHING_FOR_CHAR, left1,
                             append_to_char_boxes_LR(lst, left1, x))
            ELSE IF stage1 = STAGE_PROCESSING_CHAR /\ x = ImgWidth - 1
            THEN ScanColumns(x + 1, STAGE_SEARCHING_FOR_CHAR, left1,
                             append_to_char_boxes_LR(lst, left1, ImgWidth))
            ELSE ScanColumns(x + 1, stage1, left1, lst)

\* The loops `for left, right in char_boxes_LR: for y in range(img_height)`
\* from row y of the k-th box on; stage and upper are set once, before the
\* outer loop.
RECURSIVE ScanRows(_, _, _, _, _, _)

\* Mutant of ScanRows: a span that reaches the last row is not closed there.
M_ScanRows_NoLastRow(boxes, k, y, stage, upper, lst) ==
    IF k > Len(boxes) THEN lst
    ELSE IF y = ImgHeight THEN ScanRows(boxes, k + 1, 0, stage, upper, lst)
    ELSE
        LET left == boxes[k][1]
            right == boxes[k][2]
            empty_row == \A x \in left..(right - 1) : Px(x, y) # 0
            found == ~empty_row /\ stage = STAGE_SEARCHING_FOR_CHAR
            stage1 == IF found THEN STAGE_PROCESSING_CHAR ELSE stage
            upper1 == IF found THEN y ELSE upper
        IN  IF stage1 = STAGE_PROCESSING_CHAR /\ empty_row
            THEN ScanRows(boxes, k, y + 1, STAGE_SEARCHING_FOR_CHAR, upper1,
                          Append(lst, <<upper1, y>>))
            ELSE ScanRows(boxes, k, y + 1, stage1, upper1, lst)

ScanRows(boxes, k, y, stage, upper, lst) ==
    IF k > Len(boxes) THEN lst
    ELSE IF y = ImgHeight THEN ScanRows(boxes, k + 1, 0, stage, upper, lst)
    ELSE
        LET left == boxes[k][1]
            right == boxes[k][2]
            empty_row == \A x \in left..(right - 1) : Px(x, y) # 0
            found == ~empty_row /\ stage = STAGE_SEARCHING_FOR_CHAR
            stage1 == IF found THEN STAGE_PROCESSING_CHAR ELSE stage
            upper1 == IF found THEN y ELSE upper
        IN  IF stage1 = STAGE_PROCESSING_CHAR /\ empty_row
            THEN ScanRows(boxes, k, y + 1, STAGE_SEARCHING_FOR_CHAR, upper1,
                          Append(lst, <<upper1, y>>))
            ELSE IF stage1 = STAGE_PROCESSING_CHAR /\ y = ImgHeight - 1
            THEN ScanRows(boxes, k, y + 1, STAGE_SEARCHING_FOR_CHAR, upper1,
                          Append(lst, <<upper1, ImgHeight>>))
            ELSE ScanRows(boxes, k, y + 1, stage1, upper1, lst)

\* img.crop((left, upper, right, lower))
Crop(left, upper, right, lower) ==
    LET box == (left..(right - 1)) \X (upper..(lower - 1))
    IN  Glyph(right - left, lower - upper,
              {<<p[1] - left, p[2] - upper>> : p \in {q \in box : Px(q[1], q[2]) = 0}})

Min(S) == CHOOSE m \in S : \A n \in S : m <= n

\* sample_hashmap.get(sha1 of cimg.tobytes()): the label of a sample with the
\* same pixels, the one loaded last when several have them (each load
\* overwrites the entry); "" stands for None.
QuickMatch(g) ==
    LET hits == {i \in DOMAIN samples : samples[i].glyph = g}
    IN  IF hits = {} THEN "" ELSE samples[Max(hits)].name

\* Mutant of visual_recognise_char_img: of several samples with the greatest
\* score the last one wins.
M_visual_LastMax(g) ==
    LET score == [i \in DOMAIN samples |-> calculate_similarity(g, samples[i].glyph)]
        best == Max({score[i] : i \in DOMAIN samples})
    IN  samples[Max({i \in DOMAIN samples : score[i] = best})].name

\* max(score_list, key=lambda x: x[0])[1]: the first sample with the
\* greatest score.
visual_recognise_char_img(g) ==
    LET score == [i \in DOMAIN samples |-> calculate_similarity(g, samples[i].glyph)]
        best == Max({score[i] : i \in DOMAIN samples})
    IN  samples[Min({i \in DOMAIN samples : score[i] = best})].name

\* What solve returns: None, or the string ''.join(result_list).
SolveNone == [done |-> TRUE, none |-> TRUE, str |-> <<>>]

solve ==
    LET char_boxes_LR == ScanColumns(0, STAGE_SEARCHING_FOR_CHAR, 0, <<>>)
    IN  IF Len(char_boxes_LR) # CharCount THEN SolveNone
        ELSE
            LET char_boxes_UL ==
                    ScanRows(char_boxes_LR, 1, 0, STAGE_SEARCHING_FOR_CHAR, 0, <<>>)
            IN  IF Len(char_boxes_UL) # CharCount THEN SolveNone
                ELSE
                    LET char_images ==
                            [k \in 1..CharCount |->
                                Crop(char_boxes_LR[k][1], char_boxes_UL[k][1],
                                     char_boxes_LR[k][2], char_boxes_UL[k][2])]
                        result_list ==
                            [k \in 1..CharCount |->
                                IF QuickMatch(char_images[k]) # ""
                                THEN QuickMatch(char_images[k])
                                ELSE visual_recognise_char_img(char_images[k])]
                    IN  [done |-> TRUE, none |-> FALSE, str |-> result_list]

\* The images solve is tried on: a row of segments, each a gap, a narrow
\* piece of ink or a piece of ink wider than MaxCharWidth; ink pieces that
\* touch form one run. Two pairs of luminances, far from the threshold and
\* right at it.
SegTypes ==
    {[w |-> 1, rows |-> {}],
     [w |-> 1, rows |-> {ImgHeight - 2, ImgHeight - 1}],
     [w |-> 1, rows |-> {0, ImgHeight - 1}],
     [w |-> MaxCharWidth + 1, rows |-> {0}]}

RECURSIVE Flatten(_)
Flatten(segs) ==
    IF segs = <<>> THEN <<>>
    ELSE [i \in 1..Head(segs).w |-> Head(segs).rows] \o Flatten(Tail(segs))

LumPairs == {<<0, 255>>, <<Threshold - 1, Threshold>>}

Images ==
    {[cols |-> Flatten(segs), inkLum |-> lp[1], bgLum |-> lp[2]] :
        segs \in UNION {[1..n -> SegTypes] : n \in 1..MaxSegments}, lp \in LumPairs}

\* The sample sets: one sample, or two; none is empty.
SampleA == [name |-> "a", glyph |-> Glyph(1, 2, {<<0, 0>>, <<0, 1>>})]
SampleB == [name |-> "b", glyph |-> Glyph(2, 3, {<<0, 0>>, <<1, 2>>})]
SampleLists == {<<SampleA>>, <<SampleB, SampleA>>}

SolveInit ==
    /\ DsIdle
    /\ PoolIdle
    /\ view = NoView
    /\ LocalIdle
    /\ cand = NoGlyph
    /\ samp = NoGlyph
    /\ simOut = [done |-> FALSE, val |-> 0]
    /\ img \in Images
    /\ samples \in SampleLists
    /\ recOut = NoRec
    /\ solveOut = [done |-> FALSE, none |-> FALSE, str |-> <<>>]

Solve ==
    /\ ~solveOut.done
    /\ solveOut' = solve
    /\ UNCHANGED <<orchVars, poolVars, ctlVars, dsCfg, poolCfg, apiVars, hist>>
    /\ UNCHANGED <<view, img, cand, samp, simOut, samples, recOut, localVars>>

SolveNext == Solve

SolveSpec == SolveInit /\ [][SolveNext]_vars

\* visual_recognise_char_img on its own: any small glyph against any list of
\* one to MaxSamples samples, drawn from two labels and four bitmaps.
RecNames == {"a", "b"}

RecBitmaps ==
    {Glyph(1, 1, {<<0, 0>>}),
     Glyph(1, 2, {<<0, 1>>}),
     Glyph(2, 2, {<<0, 0>>, <<1, 1>>}),
     Glyph(2, 2, {})}

RecSamples == {[name |-> n, glyph |-> g] : n \in RecNames, g \in RecBitmaps}

RecInit ==
    /\ DsIdle
    /\ PoolIdle
    /\ view = NoView
    /\ LocalIdle
    /\ img = <<>>
    /\ solveOut = [done |-> FALSE, none |-> FALSE, str |-> <<>>]
    /\ samp = NoGlyph
    /\ simOut = [done |-> FALSE, val |-> 0]
    /\ cand \in Glyphs
    /\ samples \in UNION {[1..n -> RecSamples] : n \in 1..MaxSamples}
    /\ recOut = NoRec

VisualRecognise ==
    /\ ~recOut.done
    /\ recOut' = [done |-> TRUE, name |-> visual_recognise_char_img(cand)]
    /\ UNCHANGED <<orchVars, poolVars, ctlVars, dsCfg, poolCfg, apiVars, hist>>
    /\ UNCHANGED <<view, img, solveOut, cand, samp, simOut, samples, localVars>>

RecNext == VisualRecognise

RecSpec == RecInit /\ [][RecNext]_vars

\* LocalDataService: start() hands every file to the executor; each
\* _parse_file call reads its rows in order. A row is the sid it carries and
\* whether it has every expected field.
FileKinds == {"log", "csv", "txt"}

Sids == 1..NumSids

Rows == [sid : Sids, full : BOOLEAN]

FileContents == [kind : FileKinds, rows : UNION {[1..n -> Rows] : n \in 0..MaxLines}]

\* LocalDataService(worker_count, *files): NoCaptchaService, an empty
\* _sid_set, nothing submitted.
LocalInit ==
    /\ DsIdle
    /\ poolKind = "none"
    /\ maxsizeArg = DefaultMaxsize
    /\ tokLimit = MaxTokens
    /\ pool = <<>>
    /\ poolRunning = FALSE
    /\ cw = NewThreads("none")
    /\ nextTok = 1
    /\ startErr = FALSE
    /\ client = NoClient
    /\ cons = NoCons
    /\ hist = NoHist
    /\ view = NoView
    /\ img = <<>>
    /\ solveOut = [done |-> FALSE, none |-> FALSE, str |-> <<>>]
    /\ cand = NoGlyph
    /\ samp = NoGlyph
    /\ simOut = [done |-> FALSE, val |-> 0]
    /\ samples = <<>>
    /\ recOut = NoRec
    /\ files \in [1..NumFiles -> FileContents]
    /\ sidSet = {}
    /\ lw = [f \in 1..NumFiles |-> [pc |-> "new", line |-> 0]]

LocalFixed ==
    <<variant, supplier, execShutdown, tasks, workQueue, gen, nextQS, waitSnap,
      stopWait, poolVars, poolCfg, apiVars, sinkVars, ocrVars, hist, files>>

\* LocalDataService.start
LocalStart ==
    /\ ~dsRunning
    /\ ctl = "new"
    /\ dsRunning' = TRUE
    /\ ctl' = "started"
    /\ lw' = [f \in DOMAIN lw |-> [pc |-> "queued", line |-> 0]]
    /\ futures' = [f \in DOMAIN lw |-> f]
    /\ UNCHANGED <<results, sidSet, LocalFixed>>

\* The _parse_file calls that hold a worker thread of the executor.
Parsing == {f \in DOMAIN lw : lw[f].pc \notin {"new", "queued", "done"}}

\* The loop over the rows reaches row n of file f, or its end.
RowAt(f, n) ==
    IF n <= Len(files[f].rows) THEN [pc |-> "check", line |-> n]
    ELSE [pc |-> "done", line |-> 0]

TheSid(f) == files[f].rows[lw[f].line].sid

\* A worker thread takes the oldest queued file: _parse_file dispatches on
\* the extension; any other extension is logged and the call returns.
ParseFile(f) ==
    /\ lw[f].pc = "queued"
    /\ \A g \in DOMAIN lw : lw[g].pc = "queued" => f <= g
    /\ Cardinality(Parsing) < WorkerCount
    /\ lw' = [lw EXCEPT ![f] = IF files[f].kind \in {"log", "csv"}
                                THEN RowAt(f, 1)
                                ELSE [pc |-> "done", line |-> 0]]
    /\ UNCHANGED <<dsRunning, ctl, futures, results, sidSet, LocalFixed>>

\* _sid_unique(sid): under _sid_set_lock, `sid not in self._sid_set`; the
\* lock is released on return. A sid found in the set discards the row.
SidUnique(f) ==
    /\ lw[f].pc = "check"
    /\ lw' = [lw EXCEPT ![f] = IF TheSid(f) \in sidSet
                                THEN RowAt(f, lw[f].line + 1)
                                ELSE [pc |-> "add", line |-> lw[f].line]]
    /\ UNCHANGED <<dsRunning, ctl, futures, results, sidSet, LocalFixed>>

\* self._sid_set.add(sid). A csv row without every expected field is
\* logged and not added to the results; a log entry is added whatever its
\* length.
SidSetAdd(f) ==
    /\ lw[f].pc = "add"
    /\ sidSet' = sidSet \cup {TheSid(f)}
    /\ lw' = [lw EXCEPT ![f] =
                IF files[f].kind = "csv" /\ ~files[f].rows[lw[f].line].full
                THEN RowAt(f, lw[f].line + 1)
                ELSE [pc |-> "result", line |-> lw[f].line]]
    /\ UNCHANGED <<dsRunning, ctl, futures, results, LocalFixed>>

\* self._add_result(entry_map), then on to the next row.
ParseAddResult(f) ==
    /\ lw[f].pc = "result"
    /\ results' = Append(results, [sid |-> TheSid(f), file |-> f, line |-> lw[f].line])
    /\ lw' = [lw EXCEPT ![f] = RowAt(f, lw[f].line + 1)]
    /\ UNCHANGED <<dsRunning, ctl, futures, sidSet, LocalFixed>>

LocalNext ==
    \/ LocalStart
    \/ \E f \in DOMAIN lw : ParseFile(f)
    \/ \E f \in DOMAIN lw : SidUnique(f)
    \/ \E f \in DOMAIN lw : SidSetAdd(f)
    \/ \E f \in DOMAIN lw : ParseAddResult(f)

LocalSpec == LocalInit /\ [][LocalNext]_vars


\* ------------------------------------------------------------------ claims

RecordsOf(q) == {i \in DOMAIN results : results[i].qs = q}
RecordsBy(t) == {i \in DOMAIN results : results[i].task = t}
Children(t) == {c \in TaskIds : tasks[c].parent = t}
TasksOf(q) == {t \in TaskIds : tasks[t].qs = q}
Requesting(t) == tasks[t].pc = "request"

C3_ResubmittedStartsFromScratch ==
    \A t \in Resubmitted :
        /\ (Requesting(t) /\ tasks[t].last = NoLast) =>
               /\ tasks[t].key = 1
               /\ tasks[t].token # tasks[tasks[t].parent].token
        /\ ~(IsDone(t) /\ tasks[t].token # 0 /\ tasks[t].last = NoLast)

\* C4: while the orchestrator is running, a task whose request met a
\* transport failure has no request in flight any more, produced no record
\* and has exactly one child task, for the same QuerySet, which is in the
\* task set once the failing task has ended; and the tasks scheduled for a
\* QuerySet number 1 plus the transport failures it met.
C4_TransportResubmitsOnce ==
    dsRunning =>
        /\ \A t \in TaskIds :
               tasks[t].last.outcome = "transport" =>
                   /\ tasks[t].pc \in {"submitted", "done"}
                   /\ RecordsBy(t) = {}
                   /\ Cardinality(Children(t)) = 1
                   /\ \A c \in Children(t) :
                          /\ tasks[c].qs = tasks[t].qs
                          /\ IsDone(t) => c \in SeqToSet(futures)
        /\ \A q \in 1..(nextQS - 1) :
               Cardinality(TasksOf(q)) =
                   1 + Cardinality({t \in TasksOf(q) : tasks[t].last.outcome = "transport"})

\* One transport failure, then success: two tasks and one record.
C4_Witness ==
    /\ dsRunning
    /\ \E t \in Resubmitted :
           /\ tasks[t].last.outcome = "success"
           /\ Cardinality(TasksOf(tasks[t].qs)) = 2
           /\ Cardinality(RecordsOf(tasks[t].qs)) = 1

\* C5: a task whose request got a success response has ended with exactly
\* one record in the sink, built from that QueryKey, and from then on no task
\* of that QuerySet has a request in flight or is yet to issue one.
C5_FirstSuccessWins ==
    \A t \in TaskIds :
        tasks[t].last.outcome = "success" =>
            /\ IsDone(t)
            /\ Cardinality(RecordsBy(t)) = 1
            /\ \A i \in RecordsBy(t) :
                   results[i].qs = tasks[t].qs /\ results[i].key = tasks[t].last.key
            /\ \A u \in TasksOf(tasks[t].qs) : tasks[u].pc \in {"submitted", "done"}

C5_Witness ==
    \E t \in TaskIds : tasks[t].last.outcome = "success" /\ tasks[t].last.key < NumKeys

\* C6: the sink never holds two records of the same QuerySet.
C6_AtMostOneRecordPerQuerySet ==
    \A q \in QuerySets : Cardinality(RecordsOf(q)) <= 1

\* Every QuerySet has its record, one of them from a resubmitted task that
\* also had a token rejected.
C6_Witness ==
    /\ \A q \in QuerySets : Cardinality(RecordsOf(q)) = 1
    /\ \E i \in DOMAIN results : results[i].task \in Resubmitted

\* C7: after an "invalid token" response the task waits for or holds a new
\* token and its next request is for the same QueryKey with a token other
\* than the rejected one.
C7_InvalidTokenSameKeyNewToken ==
    \A t \in TaskIds :
        tasks[t].last.outcome = "invalid_captcha" =>
            /\ tasks[t].pc \in {"get1", "request"}
            /\ tasks[t].key = tasks[t].last.key
            /\ Requesting(t) =>
                   /\ tasks[t].token # tasks[t].last.token
                   /\ tasks[t].token \notin SeqToSet(pool)

\* Tokens (invalid, invalid, valid): the one task that took tokens succeeded
\* with the third.
C7_Witness ==
    \E t \in TaskIds :
        /\ tasks[t].last.outcome = "success"
        /\ tasks[t].last.token = 3
        /\ \A u \in TaskIds \ {t} : tasks[u].token = 0

\* C8: after an "invalid secondary key" response the task's next request is
\* for the following QueryKey with the same token, or, with no further key,
\* the task has ended still holding that token.
C8_InvalidSecondaryNextKeySameToken ==
    \A t \in TaskIds :
        tasks[t].last.outcome = "invalid_ymob" =>
            /\ tasks[t].token = tasks[t].last.token
            /\ \/ Requesting(t) /\ tasks[t].key = tasks[t].last.key + 1
               \/ IsDone(t) /\ tasks[t].last.key = NumKeys

C8_Witness ==
    \E t \in TaskIds :
        /\ Requesting(t)
        /\ tasks[t].last.outcome = "invalid_ymob"
        /\ tasks[t].key = 2

\* C9: after an "invalid primary key" response the task has ended: no
\* further request, no record, no new task.
C9_InvalidPrimaryEndsTask ==
    \A t \in TaskIds :
        tasks[t].last.outcome = "invalid_sid" =>
            /\ IsDone(t)
            /\ tasks[t].result = "returned"
            /\ tasks[t].key = tasks[t].last.key
            /\ RecordsBy(t) = {}
            /\ Children(t) = {}

C9_Witness ==
    \E t \in TaskIds : tasks[t].last.outcome = "invalid_sid" /\ tasks[t].last.key < NumKeys

\* C10: a task that got "invalid secondary key" for the last QueryKey of its
\* set (having advanced to it only through "invalid secondary key" answers)
\* has ended with no record in the sink for its QuerySet and no new task.
C10_ExhaustedEndsWithoutRecord ==
    \A t \in TaskIds :
        (tasks[t].last.outcome = "invalid_ymob" /\ tasks[t].last.key = NumKeys) =>
            /\ IsDone(t)
            /\ tasks[t].result = "returned"
            /\ RecordsOf(tasks[t].qs) = {}
            /\ Children(t) = {}

\* An original task went through every key of a tuple QuerySet.
C10_Witness ==
    \E t \in TaskIds :
        /\ tasks[t].parent = 0
        /\ supplier = "tuple"
        /\ tasks[t].last.outcome = "invalid_ymob"
        /\ tasks[t].last.key = NumKeys
        /\ IsDone(t)

\* C11: the buffer of a pool constructed with capacity C (maxsize) never
\* holds more than C + 1 tokens.
C11_BufferWithinCapacity ==
    poolKind = "south" => Len(pool) <= maxsizeArg + 1

\* C12: get_captcha_result() returns only when the buffer holds a token, and
\* then with the oldest one, which leaves the buffer; a producer inserts at
\* the other end.
C12_GetBlocksAndFifo ==
    [][/\ \A c \in Consumers :
            (poolKind = "south" /\ cons'[c].n # cons[c].n)
                => /\ pool # <<>>
                   /\ cons'[c].tok = Head(pool)
                   /\ pool' = Tail(pool)
       /\ Len(pool') > Len(pool)
            => /\ Len(pool') = Len(pool) + 1
               /\ SubSeq(pool', 1, Len(pool)) = pool]_vars

\* A consumer that found the buffer empty has returned with a token.
C12_Witness ==
    \E c \in Consumers :
        /\ cons[c].pc = "idle"
        /\ cons[c].sawEmpty
        /\ cons[c].n >= 1
        /\ cons[c].tok # 0

\* C13: no token is handed out by get_captcha_result() twice, and a token the
\* remote rejected is neither in the buffer nor on its way into it, nor the
\* token of any request in flight.
C13_TokenOnceNeverRecycled ==
    /\ \A i, j \in DOMAIN hist.handed :
            i # j => hist.handed[i] # hist.handed[j]
    /\ \A k \in hist.rejected :
            /\ k \notin SeqToSet(pool)
            /\ \A w \in DOMAIN cw : cw[w].tok # k
            /\ \A t \in TaskIds : tasks[t].pc = "request" => tasks[t].token # k

\* A token was rejected, and a request with a later token is in flight.
C13_Witness ==
    /\ hist.rejected # {}
    /\ Len(hist.handed) >= 2
    /\ \E t \in TaskIds :
            /\ tasks[t].pc = "request"
            /\ tasks[t].last.outcome = "invalid_captcha"

C15_StartIdempotent ==
    /\ [](Cardinality({w \in DOMAIN cw : cw[w].pc \notin {"new", "exit"}})
            <= CaptchaWorkerCount)
    /\ [][(client'.starts # client.starts /\ poolKind = "south" /\ poolRunning)
            => UNCHANGED <<pool, poolRunning, cw, nextTok, startErr>>]_vars

\* start() was called a second time on a running pool whose workers run.
C15_Witness ==
    /\ poolKind = "south"
    /\ client.starts >= 2
    /\ client.shutdowns = 0
    /\ poolRunning
    /\ \E w \in DOMAIN cw : cw[w].pc \notin {"new", "exit"}

\* C16: NoCaptchaService has no worker; whatever is called, its flag stays
\* clear, its buffer empty, no thread runs, and every get_captcha_result()
\* has returned None at once.
C16_NullPoolInert ==
    poolKind = "none" =>
        /\ DOMAIN cw = {}
        /\ ~poolRunning
        /\ ~startErr
        /\ pool = <<>>
        /\ nextTok = 1
        /\ \A c \in Consumers : cons[c].pc = "idle" /\ cons[c].tok = 0

\* start(), shutdown() and two get_captcha_result() calls were made on it.
C16_Witness ==
    /\ poolKind = "none"
    /\ client.starts >= 1
    /\ client.shutdowns >= 1
    /\ \E c \in Consumers : cons[c].n >= 2

StopCalled == ctl \in {"stop_captcha", "stop_executor", "joining", "stopped"}

\* C17 as stated: stop(wait=True) returns with every task finished, and from
\* the moment stop() is called the executor accepts no further task.
C17_NoTaskOnceStopCalled ==
    /\ []((ctl = "stopped" /\ stopWait) => \A t \in TaskIds : IsDone(t))
    /\ [][StopCalled => Len(tasks') = Len(tasks)]_vars

\* C17: stop(wait=True) returns with every task finished; once stop() has
\* shut the executor down no further task is accepted; a task that starts
\* after stop()'s first statement returns without a request.
C17_StopCompletes ==
    /\ []((ctl = "stopped" /\ stopWait) => \A t \in TaskIds : IsDone(t))
    /\ [][execShutdown => Len(tasks') = Len(tasks)]_vars
    /\ [][\A t \in TaskIds :
            (StopCalled /\ tasks[t].pc = "queued" /\ tasks'[t].pc # "queued")
                => tasks'[t].pc = "done" /\ tasks'[t].last = NoLast]_vars

\* stop(wait=True) has returned, and a task had been resubmitted after
\* stop() was called.
C17_Witness ==
    /\ ctl = "stopped"
    /\ stopWait
    /\ \E t \in TaskIds :
            /\ tasks[t].parent # 0
            /\ tasks[t].last = NoLast
            /\ IsDone(t)

\* C18: get_result_list(copy=True) hands out the sink's content as it is
\* then; a later append to the sink does not show in that list, and a change
\* made to that list or to one of its records leaves the sink as it was.
\* get_result_list(copy=False) hands out the sink itself: what the caller
\* reads in it is always what the sink holds.
C18_CopyIsIndependentLiveIsLive ==
    /\ [](view.asked = "live" => Content = results)
    /\ [][(view' # view /\ view'.muts = view.muts /\ view'.asked = "copy")
            => Content' = results]_vars
    /\ [][(view.asked = "copy" /\ view' = view) => Content' = Content]_vars
    /\ [][(view.asked = "copy" /\ view'.muts # view.muts)
            => results' = results]_vars

\* The caller holds a copy one of whose records it has changed, and the sink
\* has grown since.
C18_Witness ==
    /\ view.asked = "copy"
    /\ \E i \in DOMAIN view.list :
            i \in DOMAIN results /\ CellVal(view.list[i]) # results[i]
    /\ Len(results) = MaxRecords
    /\ \E i \in DOMAIN results : i \notin DOMAIN view.list

\* The candidate differs in size from the sample and fits inside it.
FitsInside(c, s) == <<c.w, c.h>> # <<s.w, s.h>> /\ c.w <= s.w /\ c.h <= s.h

\* C20: for a candidate that differs in size from the sample and fits inside
\* it, calculate_similarity returns the greatest, over the offsets (dx, dy)
\* at which the candidate lies inside the sample, of the score of the
\* candidate against the sample region that starts at (dx, dy).
C20_MaxOverOffsets ==
    (simOut.done /\ FitsInside(cand, samp))
        => simOut.val = Max({ScoreAt(cand, samp, dx, dy) :
                                dx \in 0..(samp.w - cand.w),
                                dy \in 0..(samp.h - cand.h)})

InkColumn(x) == \E y \in 0..(ImgHeight - 1) : Px(x, y) = 0

\* The maximal runs [l, r) of columns that hold ink.
Runs ==
    LET starts == {x \in 0..(ImgWidth - 1) :
                    InkColumn(x) /\ (x = 0 \/ ~InkColumn(x - 1))}
        ends == {x \in 1..ImgWidth :
                    InkColumn(x - 1) /\ (x = ImgWidth \/ ~InkColumn(x))}
    IN  {<<l, Min({r \in ends : r > l})>> : l \in starts}

InkRow(b, y) == \E x \in b[1]..(b[2] - 1) : Px(x, y) = 0

\* The row spans inside the column spans S, each named by its column span
\* and its first row.
RowSpans(S) ==
    {<<b, y>> \in S \X (0..(ImgHeight - 1)) :
        InkRow(b, y) /\ (y = 0 \/ ~InkRow(b, y - 1))}

\* A run wider than MaxCharWidth counts as its two halves.
SplitRuns ==
    UNION {IF b[2] - b[1] > MaxCharWidth
           THEN {<<b[1], (b[1] + b[2]) \div 2>>, <<(b[1] + b[2]) \div 2, b[2]>>}
           ELSE {b} : b \in Runs}

ReturnsString == ~solveOut.none /\ Len(solveOut.str) = CharCount

\* C19 as stated: solve returns a 4-character string exactly when the
\* binarized image has 4 runs of ink columns, none wider than 8, and 4 row
\* spans; otherwise None.
C19_StringIffFourNarrowRuns ==
    solveOut.done =>
        /\ ReturnsString \/ solveOut.none
        /\ ReturnsString <=>
                /\ Cardinality(Runs) = CharCount
                /\ \A b \in Runs : b[2] - b[1] <= MaxCharWidth
                /\ Cardinality(RowSpans(Runs)) = CharCount

\* C19: solve returns a 4-character string exactly when the runs of ink
\* columns, a run wider than 8 counted as its two halves, make 4 column
\* spans holding 4 row spans in all; otherwise None.
C19_StringIffFourSpans ==
    solveOut.done =>
        /\ ReturnsString \/ solveOut.none
        /\ ReturnsString <=>
                /\ Cardinality(SplitRuns) = CharCount
                /\ Cardinality(RowSpans(SplitRuns)) = CharCount

\* solve has returned a string for an image with a run wider than 8.
C19_Witness ==
    /\ solveOut.done
    /\ ReturnsString
    /\ \E b \in Runs : b[2] - b[1] > MaxCharWidth

\* C21: a candidate wider or taller than the sample scores the sentinel -100,
\* and every candidate that fits the sample (equal size or smaller) scores
\* strictly more than -100.
C21_SentinelBelowInBounds ==
    simOut.done =>
        IF cand.w > samp.w \/ cand.h > samp.h
        THEN simOut.val = -100
        ELSE simOut.val > -100

SampleScore(i) == calculate_similarity(cand, samples[i].glyph)

\* C22: the label returned on the slow path is the label of a sample whose
\* score no other sample exceeds and which no earlier sample equals: the
\* first registered of the samples with the maximum score.
C22_FirstMaxWins ==
    recOut.done =>
        \E i \in DOMAIN samples :
            /\ \A j \in DOMAIN samples : SampleScore(j) <= SampleScore(i)
            /\ \A j \in 1..(i - 1) : SampleScore(j) < SampleScore(i)
            /\ recOut.name = samples[i].name

\* Two samples with different labels share the maximum, the later one is
\* not the first sample, and a label was returned.
C22_Witness ==
    /\ recOut.done
    /\ \E i, j \in DOMAIN samples :
            /\ i < j
            /\ samples[i].name # samples[j].name
            /\ SampleScore(i) = SampleScore(j)
            /\ \A k \in DOMAIN samples : SampleScore(k) <= SampleScore(i)

\* C23: after an exception that is neither a classified outcome nor a
\* transport failure the task has not ended, its next request is for the
\* same QueryKey with the same token, and it has scheduled no task and
\* appended no record.
C23_ExceptionRetriesSameKey ==
    \A t \in TaskIds :
        tasks[t].last.outcome = "exception" =>
            /\ ~IsDone(t)
            /\ Requesting(t)
            /\ tasks[t].key = tasks[t].last.key
            /\ tasks[t].token = tasks[t].last.token
            /\ Children(t) = {}
            /\ RecordsBy(t) = {}

\* A task met such an exception on a key after the first one of its set.
C23_Witness ==
    \E t \in TaskIds :
        /\ tasks[t].last.outcome = "exception"
        /\ tasks[t].last.key > 1
        /\ tasks[t].last.token > 0

\* C24: the result sink of a LocalDataService never holds two records with
\* the same sid, whatever the interleaving of the file-parsing workers.
C24_OneRecordPerSid ==
    \A i, j \in DOMAIN results : results[i].sid = results[j].sid => i = j

\* C25: once shutdown() has cleared the running flag and a turn of a
\* worker's retry loop has ended without a code, the worker fetches no
\* further challenge: it does not come out of the loop with a token to
\* insert, the only way on is to terminate.
C25_RetryLoopSeesShutdown ==
    [][\A w \in DOMAIN cw :
        (cw[w].pc = "fetch" /\ cw[w].late /\ ~poolRunning)
            => cw'[w].pc \in {"fetch", "exit"} /\ cw'[w].tok = 0]_vars

\* C26: a worker about to insert holds a code, and the context it holds is
\* the one that came with the image the code was read from; every token in
\* the buffer and every token get() has returned is such a pair.
C26_OnlySolvedPairs ==
    /\ \A w \in DOMAIN cw :
            cw[w].pc = "put" => cw[w].tok > 0 /\ cw[w].ctx = cw[w].tok
    /\ \A i \in DOMAIN pool : pool[i] > 0
    /\ \A i \in DOMAIN hist.handed : hist.handed[i] > 0
    /\ poolKind = "south" =>
            \A c \in Consumers : cons[c].n > 0 => cons[c].tok > 0

\* A worker has discarded an unsolvable image and is fetching again, while
\* the buffer holds a token and get() has returned one.
C26_Witness ==
    /\ \E w \in DOMAIN cw : cw[w].pc = "fetch" /\ cw[w].ctx = -1
    /\ pool # <<>>
    /\ \E c \in Consumers : cons[c].n > 0 /\ cons[c].tok > 0

ColumnSpans == ScanColumns(0, STAGE_SEARCHING_FOR_CHAR, 0, <<>>)

\* C28: the column spans are the maximal runs of ink columns, a run wider
\* than 8 replaced by its two halves [left, mid) and [mid, right) and split
\* no further; they come in left-to-right order without overlap, none is
\* empty, and when the last column holds ink the last span ends at the
\* image width.
C28_SpansAreSplitRuns ==
    solveOut.done =>
        LET spans == ColumnSpans
            split == SplitRuns
        IN  /\ SeqToSet(spans) = split
            /\ Len(spans) = Cardinality(split)
            /\ \A k \in DOMAIN spans : spans[k][1] < spans[k][2]
            /\ \A k \in 1..(Len(spans) - 1) : spans[k][2] <= spans[k + 1][1]
            /\ InkColumn(ImgWidth - 1) => spans[Len(spans)][2] = ImgWidth

\* An image with a run more than twice as wide as a character, and ink in
\* its last column.
C28_Witness ==
    /\ solveOut.done
    /\ \E b \in Runs : b[2] - b[1] > 2 * MaxCharWidth
    /\ \E b \in Runs : b[2] - b[1] <= MaxCharWidth
    /\ InkColumn(ImgWidth - 1)

\* The row spans of the column spans, as solve computes them in one pass.
AllRowSpans == ScanRows(ColumnSpans, 1, 0, STAGE_SEARCHING_FOR_CHAR, 0, <<>>)

\* The row spans of column span k scanned on its own, from a fresh state.
RowSpansOf(k) ==
    ScanRows(<<ColumnSpans[k]>>, 1, 0, STAGE_SEARCHING_FOR_CHAR, 0, <<>>)

\* C29: when solve returns a string, each of the 4 column spans holds
\* exactly one row span, and the k-th row span of the pass is the one of
\* the k-th column span scanned on its own.
C29_OneRowSpanPerColumnSpan ==
    (solveOut.done /\ ~solveOut.none) =>
        /\ Len(ColumnSpans) = CharCount
        /\ Len(AllRowSpans) = CharCount
        /\ \A k \in 1..CharCount :
                /\ RowSpansOf(k) = <<AllRowSpans[k]>>
                /\ Cardinality(RowSpans({ColumnSpans[k]})) = 1

\* solve returned a string for an image whose column spans have different
\* vertical extents, one of them reaching the last row.
C29_Witness ==
    /\ solveOut.done
    /\ ~solveOut.none
    /\ \E j, k \in 1..CharCount : AllRowSpans[j] # AllRowSpans[k]
    /\ \E k \in 1..CharCount : AllRowSpans[k][2] = ImgHeight

\* C30: once stop(wait=False) has been called, a task whose remote call is
\* in flight stays in flight through every step of stop(); when the call
\* returns success its record is appended to the sink; and no step removes
\* or changes a record the sink already holds.
C30_InFlightSuccessStillRecorded ==
    /\ [][\A t \in TaskIds :
            (StopCalled /\ ~stopWait /\ Requesting(t)
                /\ tasks'[t].last.outcome = "success")
                => results' = Append(results, [qs |-> tasks[t].qs,
                                               key |-> tasks[t].key, task |-> t])]_vars
    /\ [][(ctl' # ctl /\ StopCalled')
            => results' = results /\ tasks' = tasks]_vars
    /\ [][\A i \in DOMAIN results :
            i \in DOMAIN results' /\ results'[i] = results[i]]_vars

\* stop(wait=False) has returned while a remote call of a task is in flight
\* and the sink holds a record.
C30_Witness ==
    /\ ctl = "stopped"
    /\ ~stopWait
    /\ results # <<>>
    /\ \E t \in TaskIds : Requesting(t) /\ tasks[t].key > 1

\* A task is attempting its QuerySet from its first get_captcha_result() up
\* to the response that ends it.
Attempting(t) == tasks[t].pc \in {"get0", "get1", "request"}

\* C31: of the tasks of one QuerySet, the original and its resubmissions, at
\* most one is attempting it at any time, so no two of its requests are in
\* flight together; and the key of a task only moves forward, by one key in
\* a tuple, and the keys it has requested never go back.
C31_OneAttemptPerQuerySet ==
    /\ [](\A q \in QuerySets :
            Cardinality({t \in TasksOf(q) : Attempting(t)}) <= 1)
    /\ [][\A t \in TaskIds :
            /\ tasks'[t].key >= tasks[t].key
            /\ (supplier = "tuple" /\ tasks'[t].key # tasks[t].key)
                    => tasks'[t].key = tasks[t].key + 1
            /\ tasks'[t].last.key >= tasks[t].last.key]_vars

\* A resubmitted task is requesting the last key of its QuerySet while a
\* task of the other QuerySet has a request in flight.
C31_Witness ==
    \E t, u \in TaskIds :
        /\ tasks[t].parent # 0
        /\ Requesting(t)
        /\ tasks[t].key = NumKeys
        /\ tasks[u].qs # tasks[t].qs
        /\ Requesting(u)

\* C32: stop(wait=True) is never left joining an orchestrator worker that
\* waits in get_captcha_result() on an empty buffer after every producer
\* worker has terminated: from such a state no token ever arrives, the
\* worker never finishes and stop(wait=True) never returns.
C32_StopNeverJoinsBlockedWorker ==
    ~(/\ ctl = "joining"
      /\ stopWait
      /\ \E t \in TaskIds : tasks[t].pc \in {"get0", "get1"}
      /\ pool = <<>>
      /\ \A w \in DOMAIN cw : cw[w].pc = "exit")

\* The next statement of producer worker w can be executed.
WorkerCanStep(w) ==
    ENABLED (\/ CwTop(w)
             \/ CwMid(w)
             \/ \E o \in FetchOutcomes : CwFetch(w, o)
             \/ CwPut(w))

\* C33: once shutdown() has cleared the flag, a producer worker that has
\* not terminated can always go on by itself, while no consumer is inside
\* get(): in particular a worker holding a solved token is not left
\* waiting for room that only a further get() could make.
C33_ProducerFinishesUnaided ==
    (/\ client.shutdowns > 0
     /\ ~poolRunning
     /\ \A c \in Consumers : cons[c].pc = "idle")
        => \A w \in DOMAIN cw : cw[w].pc \notin {"new", "exit"} => WorkerCanStep(w)

\* C34: a task that leaves the work queue after stop() has been called is
\* finished by that very step: it has no token, has made no request, and
\* the step takes nothing from the pool, appends no record and schedules no
\* task; such a task never does any of these later either.
C34_LateTaskDoesNothing ==
    /\ [][\A t \in TaskIds :
            (StopCalled /\ tasks[t].pc = "queued" /\ tasks'[t].pc # "queued")
                => /\ IsDone(t)'
                   /\ tasks'[t].result = "returned"
                   /\ tasks'[t].token = 0
                   /\ tasks'[t].key = 0
                   /\ tasks'[t].last = NoLast
                   /\ pool' = pool
                   /\ hist' = hist
                   /\ results' = results
                   /\ Len(tasks') = Len(tasks)
                   /\ futures' = futures]_vars
    /\ [][\A t \in TaskIds : IsDone(t) => tasks'[t] = tasks[t]]_vars

\* A task that was still queued when stop() was called has been taken up
\* and has returned, next to a task that made requests.
C34_Witness ==
    /\ StopCalled
    /\ \E t \in TaskIds :
            /\ IsDone(t)
            /\ tasks[t].token = 0
            /\ tasks[t].last = NoLast
            /\ RecordsBy(t) = {}
            /\ Children(t) = {}
    /\ \E u \in TaskIds : tasks[u].last # NoLast

\* C35: a transport failure met after the executor's shutdown adds no task
\* to the task set or to the work queue and no record; the task ends with
\* the rejection kept inside it (its future holds no exception); and the
\* QuerySet of a task that ended like this has no record.
C35_RejectedResubmissionIsContained ==
    /\ [][\A t \in TaskIds :
            (execShutdown /\ Requesting(t) /\ tasks'[t].last.outcome = "transport")
                => /\ Len(tasks') = Len(tasks)
                   /\ workQueue' = workQueue
                   /\ futures' = futures
                   /\ results' = results
                   /\ IsDone(t)'
                   /\ tasks'[t].result = "returned"]_vars
    /\ [](\A t \in TaskIds :
            (IsDone(t) /\ tasks[t].last.outcome = "transport" /\ Children(t) = {})
                => RecordsOf(tasks[t].qs) = {})

\* After the executor's shutdown a task has ended on a transport failure
\* without a successor, while the other QuerySet has its record.
C35_Witness ==
    /\ execShutdown
    /\ \E t \in TaskIds :
            /\ IsDone(t)
            /\ tasks[t].last.outcome = "transport"
            /\ Children(t) = {}
    /\ results # <<>>

\* The producer workers that hold a solved token.
Holding == {w \in DOMAIN cw : cw[w].tok > 0}

\* C36: the buffer never holds more than the maxsize of its queue, 40; a
\* worker holds a solved token exactly while it is at put(), one token at
\* most; so the tokens solved and not yet consumed, in the buffer or in a
\* worker's hands, number at most 40 + worker count.
C36_SolvedTokensBounded ==
    /\ Len(pool) <= DefaultMaxsize
    /\ \A w \in DOMAIN cw : cw[w].pc = "put" <=> w \in Holding
    /\ Len(pool) + Cardinality(Holding) <= DefaultMaxsize + CaptchaWorkerCount
    /\ \A i, j \in DOMAIN pool : pool[i] = pool[j] => i = j
    /\ \A w \in Holding : cw[w].tok \notin SeqToSet(pool)

\* The bound is met: the buffer is full and every worker holds a token.
C36_Witness ==
    /\ Len(pool) = DefaultMaxsize
    /\ Holding = DOMAIN cw
    /\ Len(pool) + Cardinality(Holding) = DefaultMaxsize + CaptchaWorkerCount

====
